---- MODULE Spec2Model ----
(***************************************************************************)
(* Model of the raw-mode terminal editor in src/src/main.rs: the Canvas    *)
(* (buffer of byte lines and a cursor), the escape-sequence accumulator of *)
(* main's loop, the render protocol and the start-up / shutdown calls.     *)
(* Lines and arrays are 1-based sequences here; x, y and index keep the    *)
(* 0-based values they have in the source.                                 *)
(***************************************************************************)
EXTENDS Integers, Sequences, FiniteSets

\* ------------------------------------------------------------------ bounds
\* editing stops growing the buffer past this size (lines plus bytes)
MaxSize == 4
\* a zero-byte read is taken only while fewer loop iterations than this have
\* run since the current event's first byte was read
MaxIters == 2

\* ------------------------------------------------------------ Key (l.9-18)
BACKSPACE == 127
ENTER == 10
CTRL_D == 4
ESCAPE == 27
ARROW_UP == <<91, 65>>
ARROW_DOWN == <<91, 66>>
ARROW_RIGHT == <<91, 67>>
ARROW_LEFT == <<91, 68>>

\* bytes the input stream delivers, by position in the pending sequence
FirstBytes == {CTRL_D, ENTER, ESCAPE, BACKSPACE, 65, 200}
SecondBytes == {91, ENTER, ESCAPE}
ThirdBytes == {65, 66, 67, 68, CTRL_D, BACKSPACE}
InputBytes(idx) ==
    IF idx = 0 THEN FirstBytes ELSE IF idx = 1 THEN SecondBytes ELSE ThirdBytes

VARIABLES
    pc,            \* position in main
    canvas,        \* Canvas: [buffer, x, y]
    input_buffer,  \* main's input_buffer: [0; 4]
    index,         \* main's index
    buf,           \* buf[0] of the latest loop iteration (0: no byte read)
    raw,           \* terminal attributes: canonical mode and echo disabled
    restores,      \* number of restore_mode calls made
    written,       \* payloads, in order, of the latest canvas output call that succeeded
    trace,         \* calls made after the loop ended, in order
    result,        \* what main returned: "running", "ok", "err"
    iters,         \* loop iterations since the first byte of the current event was read
    renders,       \* render calls since the first byte of the current event was read
    rt,            \* split/join history: "none", "split", "joined"
    saved          \* the canvas as it was before the Enter that rt tracks

vars == <<pc, canvas, input_buffer, index, buf, raw, restores, written, trace,
          result, iters, renders, rt, saved>>

\* ------------------------------------------------------------- Vec helpers
\* Vec::insert(i, e), Vec::remove(i), with the 0-based index of the source
VecInsert(s, i, e) == SubSeq(s, 1, i) \o <<e>> \o SubSeq(s, i + 1, Len(s))
VecRemove(s, i) == SubSeq(s, 1, i) \o SubSeq(s, i + 2, Len(s))
Line(c) == c.buffer[c.y + 1]
RECURSIVE SumLen(_)
SumLen(b) == IF b = <<>> THEN 0 ELSE Len(Head(b)) + SumLen(Tail(b))
Size(b) == Len(b) + SumLen(b)

\* ------------------------------------------------------- Canvas (l.84-137)
new == [buffer |-> << <<>> >>, x |-> 0, y |-> 0]

\* faulty variant of move_up: on the first row the column is reset as well
move_up_resets_column(c) ==
    IF c.y > 0 THEN [c EXCEPT !.y = c.y - 1, !.x = 0] ELSE [c EXCEPT !.x = 0]

move_up(c) ==
    IF c.y > 0 THEN [c EXCEPT !.y = c.y - 1, !.x = 0] ELSE c

move_down(c) ==
    IF c.y < Len(c.buffer) - 1 THEN [c EXCEPT !.y = c.y + 1, !.x = 0] ELSE c

\* faulty variant of move_right: the bound test is off by one
move_right_past_end(c) ==
    IF c.x <= Len(Line(c)) THEN [c EXCEPT !.x = c.x + 1] ELSE c

move_right(c) ==
    IF c.x < Len(Line(c)) THEN [c EXCEPT !.x = c.x + 1] ELSE c

\* faulty variant of move_left: no test for column 0
move_left_unguarded(c) == [c EXCEPT !.x = c.x - 1]

move_left(c) ==
    IF c.x > 0 THEN [c EXCEPT !.x = c.x - 1] ELSE c

\* ---------------------------------------------- main: key handling (l.159-237)
\* Key::ENTER arm (l.190-206)
\* faulty variant of enter: the new line is always pushed at the end of the
\* buffer
enter_pushes_at_end(c) ==
    LET b1 == Append(c.buffer, <<>>)
        c1 == [c EXCEPT !.buffer = b1]
    IN  IF c.x = Len(Line(c1))
        THEN move_down(c1)
        ELSE LET left_over == SubSeq(Line(c1), c.x + 1, Len(Line(c1)))
                 c2 == [c1 EXCEPT !.buffer[c.y + 1] = SubSeq(Line(c1), 1, c.x)]
                 c3 == move_down(c2)
             IN  [c3 EXCEPT !.buffer[c3.y + 1] = @ \o left_over]

\* faulty variant of enter: the bytes drained from the line are not appended
\* to the new line
enter_drops_left_over(c) ==
    LET b1 == IF c.y < Len(c.buffer)
              THEN VecInsert(c.buffer, c.y + 1, <<>>)
              ELSE Append(c.buffer, <<>>)
        c1 == [c EXCEPT !.buffer = b1]
    IN  IF c.x = Len(Line(c1))
        THEN move_down(c1)
        ELSE move_down([c1 EXCEPT !.buffer[c.y + 1] = SubSeq(Line(c1), 1, c.x)])

enter(c) ==
    LET b1 == IF c.y < Len(c.buffer)
              THEN VecInsert(c.buffer, c.y + 1, <<>>)
              ELSE Append(c.buffer, <<>>)
        c1 == [c EXCEPT !.buffer = b1]
    IN  IF c.x = Len(Line(c1))
        THEN move_down(c1)
        ELSE LET left_over == SubSeq(Line(c1), c.x + 1, Len(Line(c1)))
                 c2 == [c1 EXCEPT !.buffer[c.y + 1] = SubSeq(Line(c1), 1, c.x)]
                 c3 == move_down(c2)
             IN  [c3 EXCEPT !.buffer[c3.y + 1] = @ \o left_over]

\* faulty variant of backspace: at column 0 the current line is removed
\* whatever the row
backspace_unguarded(c) ==
    IF c.x > 0
    THEN [c EXCEPT !.buffer[c.y + 1] = VecRemove(@, c.x - 1), !.x = c.x - 1]
    ELSE IF c.y > 0
    THEN LET y1 == c.y - 1
             left_over == c.buffer[y1 + 2]
             b1 == VecRemove(c.buffer, y1 + 1)
             new_x == Len(b1[y1 + 1])
         IN  [buffer |-> [b1 EXCEPT ![y1 + 1] = @ \o left_over],
              x |-> new_x, y |-> y1]
    ELSE [c EXCEPT !.buffer = VecRemove(c.buffer, 0)]

\* faulty variant of backspace: after a join the column is taken from the
\* merged line
backspace_x_after_join(c) ==
    IF c.x > 0
    THEN [c EXCEPT !.buffer[c.y + 1] = VecRemove(@, c.x - 1), !.x = c.x - 1]
    ELSE IF c.y > 0
    THEN LET y1 == c.y - 1
             left_over == c.buffer[y1 + 2]
             b1 == VecRemove(c.buffer, y1 + 1)
             b2 == [b1 EXCEPT ![y1 + 1] = @ \o left_over]
         IN  [buffer |-> b2, x |-> Len(b2[y1 + 1]), y |-> y1]
    ELSE c

\* faulty variant of backspace: at (0, 0) the byte under the cursor is removed
backspace_forward_at_origin(c) ==
    IF c.x > 0
    THEN [c EXCEPT !.buffer[c.y + 1] = VecRemove(@, c.x - 1), !.x = c.x - 1]
    ELSE IF c.y > 0
    THEN LET y1 == c.y - 1
             left_over == c.buffer[y1 + 2]
             b1 == VecRemove(c.buffer, y1 + 1)
             new_x == Len(b1[y1 + 1])
         IN  [buffer |-> [b1 EXCEPT ![y1 + 1] = @ \o left_over],
              x |-> new_x, y |-> y1]
    ELSE IF Len(Line(c)) > 0
    THEN [c EXCEPT !.buffer[1] = VecRemove(@, 0)]
    ELSE c

\* faulty variant of backspace: the removed line is not appended to the
\* previous one
backspace_join_drops_line(c) ==
    IF c.x > 0
    THEN [c EXCEPT !.buffer[c.y + 1] = VecRemove(@, c.x - 1), !.x = c.x - 1]
    ELSE IF c.y > 0
    THEN LET y1 == c.y - 1
             b1 == VecRemove(c.buffer, y1 + 1)
         IN  [buffer |-> b1, x |-> Len(b1[y1 + 1]), y |-> y1]
    ELSE c

\* Key::BACKSPACE arm (l.207-225)
backspace(c) ==
    IF c.x > 0
    THEN [c EXCEPT !.buffer[c.y + 1] = VecRemove(@, c.x - 1), !.x = c.x - 1]
    ELSE IF c.y > 0
    THEN LET y1 == c.y - 1
             left_over == c.buffer[y1 + 2]
             b1 == VecRemove(c.buffer, y1 + 1)
             new_x == Len(b1[y1 + 1])
         IN  [buffer |-> [b1 EXCEPT ![y1 + 1] = @ \o left_over],
              x |-> new_x, y |-> y1]
    ELSE c

\* faulty variant of insert: the byte is always pushed at the end of the line
insert_always_push(c, b) ==
    [c EXCEPT !.buffer[c.y + 1] = Append(@, b), !.x = c.x + 1]

\* faulty variant of insert: the column is not advanced
insert_keeps_column(c, b) ==
    IF c.x = Len(Line(c))
    THEN [c EXCEPT !.buffer[c.y + 1] = Append(@, b)]
    ELSE [c EXCEPT !.buffer[c.y + 1] = VecInsert(@, c.x, b)]

\* the catch-all arm `c => ...` (l.226-233)
insert(c, b) ==
    IF c.x = Len(Line(c))
    THEN [c EXCEPT !.buffer[c.y + 1] = Append(@, b), !.x = c.x + 1]
    ELSE [c EXCEPT !.buffer[c.y + 1] = VecInsert(@, c.x, b), !.x = c.x + 1]

\* faulty variant of arrow: the right and left arms are exchanged
arrow_swapped(c, b1, b2) ==
    IF <<b1, b2>> = ARROW_UP THEN move_up(c)
    ELSE IF <<b1, b2>> = ARROW_DOWN THEN move_down(c)
    ELSE IF <<b1, b2>> = ARROW_RIGHT THEN move_left(c)
    ELSE IF <<b1, b2>> = ARROW_LEFT THEN move_right(c)
    ELSE c

\* match (input_buffer[1], input_buffer[2]) (l.167-181)
arrow(c, b1, b2) ==
    IF <<b1, b2>> = ARROW_UP THEN move_up(c)
    ELSE IF <<b1, b2>> = ARROW_DOWN THEN move_down(c)
    ELSE IF <<b1, b2>> = ARROW_RIGHT THEN move_right(c)
    ELSE IF <<b1, b2>> = ARROW_LEFT THEN move_left(c)
    ELSE c

\* faulty variant of regular: no arm for the end-of-session byte
regular_without_ctrl_d(c, b) ==
    IF b = ENTER THEN [canvas |-> enter(c), brk |-> FALSE]
    ELSE IF b = BACKSPACE THEN [canvas |-> backspace(c), brk |-> FALSE]
    ELSE [canvas |-> insert(c, b), brk |-> FALSE]

\* match buf[0] (l.186-234); brk: the loop is left by `break`
regular(c, b) ==
    IF b = CTRL_D THEN [canvas |-> c, brk |-> TRUE]
    ELSE IF b = ENTER THEN [canvas |-> enter(c), brk |-> FALSE]
    ELSE IF b = BACKSPACE THEN [canvas |-> backspace(c), brk |-> FALSE]
    ELSE [canvas |-> insert(c, b), brk |-> FALSE]

\* faulty variant of on_byte: the count is not reset after the third byte of
\* a sequence
on_byte_no_reset(c, ib, idx, b) ==
    LET ib1 == [ib EXCEPT ![idx + 1] = b]
        idx1 == idx + 1
    IN  IF ib1[1] = ESCAPE
        THEN IF idx1 >= 3
             THEN [canvas |-> arrow(c, ib1[2], ib1[3]), input_buffer |-> ib1,
                   index |-> idx1, brk |-> FALSE]
             ELSE [canvas |-> c, input_buffer |-> ib1, index |-> idx1,
                   brk |-> FALSE]
        ELSE LET r == regular(c, b)
             IN  [canvas |-> r.canvas, input_buffer |-> ib1,
                  index |-> IF r.brk THEN idx1 ELSE 0, brk |-> r.brk]

\* faulty variant of on_byte: an Enter byte is matched before the test for a
\* pending sequence
on_byte_enter_first(c, ib, idx, b) ==
    LET ib1 == [ib EXCEPT ![idx + 1] = b]
        idx1 == idx + 1
    IN  IF b = ENTER
        THEN [canvas |-> enter(c), input_buffer |-> ib1, index |-> 0,
              brk |-> FALSE]
        ELSE IF ib1[1] = ESCAPE
        THEN IF idx1 >= 3
             THEN [canvas |-> arrow(c, ib1[2], ib1[3]), input_buffer |-> ib1,
                   index |-> 0, brk |-> FALSE]
             ELSE [canvas |-> c, input_buffer |-> ib1, index |-> idx1,
                   brk |-> FALSE]
        ELSE LET r == regular(c, b)
             IN  [canvas |-> r.canvas, input_buffer |-> ib1,
                  index |-> IF r.brk THEN idx1 ELSE 0, brk |-> r.brk]

\* the Ok(_) arm (l.159-237): one byte b read with the accumulator at (ib, idx)
on_byte(c, ib, idx, b) ==
    LET ib1 == [ib EXCEPT ![idx + 1] = b]
        idx1 == idx + 1
    IN  IF ib1[1] = ESCAPE
        THEN IF idx1 >= 3
             THEN [canvas |-> arrow(c, ib1[2], ib1[3]), input_buffer |-> ib1,
                   index |-> 0, brk |-> FALSE]
             ELSE [canvas |-> c, input_buffer |-> ib1, index |-> idx1,
                   brk |-> FALSE]
        ELSE LET r == regular(c, b)
             IN  [canvas |-> r.canvas, input_buffer |-> ib1,
                  index |-> IF r.brk THEN idx1 ELSE 0, brk |-> r.brk]

\* the loop (l.153-241) run on the bytes bs in arrival order: what main's
\* locals hold when the bytes are used up or when the Key::CTRL_D arm breaks
\* out of the loop (l.187-189), after which no later byte is read
RECURSIVE Feed(_, _, _, _)
Feed(c, ib, idx, bs) ==
    IF bs = <<>>
    THEN [canvas |-> c, input_buffer |-> ib, index |-> idx]
    ELSE LET r == on_byte(c, ib, idx, Head(bs))
         IN  IF r.brk
             THEN [canvas |-> r.canvas, input_buffer |-> r.input_buffer,
                   index |-> r.index]
             ELSE Feed(r.canvas, r.input_buffer, r.index, Tail(bs))

\* faulty variant of loop_body: a zero-byte read skips the render
loop_body_skip_zero(c, ib, idx, rd) ==
    IF rd.kind = "zero"
    THEN [canvas |-> c, input_buffer |-> ib, index |-> idx, brk |-> FALSE,
          rendered |-> 0]
    ELSE IF rd.kind = "err"
    THEN [canvas |-> c, input_buffer |-> ib, index |-> idx, brk |-> TRUE,
          rendered |-> 0]
    ELSE LET r == on_byte(c, ib, idx, rd.byte)
         IN  [canvas |-> r.canvas, input_buffer |-> r.input_buffer,
              index |-> r.index, brk |-> r.brk,
              rendered |-> IF r.brk THEN 0 ELSE 1]

\* faulty variant of loop_body: a zero-byte read is taken for the end of the
\* input and breaks
loop_body_break_on_zero(c, ib, idx, rd) ==
    IF rd.kind = "zero" \/ rd.kind = "err"
    THEN [canvas |-> c, input_buffer |-> ib, index |-> idx, brk |-> TRUE,
          rendered |-> 0]
    ELSE LET r == on_byte(c, ib, idx, rd.byte)
         IN  [canvas |-> r.canvas, input_buffer |-> r.input_buffer,
              index |-> r.index, brk |-> r.brk,
              rendered |-> IF r.brk THEN 0 ELSE 1]

\* one iteration of the loop (l.153-243) on the read result rd: what it leaves
\* behind, whether it breaks, and how many render calls it makes (l.242)
loop_body(c, ib, idx, rd) ==
    IF rd.kind = "zero"
    THEN [canvas |-> c, input_buffer |-> ib, index |-> idx, brk |-> FALSE,
          rendered |-> 1]
    ELSE IF rd.kind = "err"
    THEN [canvas |-> c, input_buffer |-> ib, index |-> idx, brk |-> TRUE,
          rendered |-> 0]
    ELSE LET r == on_byte(c, ib, idx, rd.byte)
         IN  [canvas |-> r.canvas, input_buffer |-> r.input_buffer,
              index |-> r.index, brk |-> r.brk,
              rendered |-> IF r.brk THEN 0 ELSE 1]

\* ------------------------------------------------- output (l.64-105)
\* String::from_utf8_lossy (l.101): valid UTF-8 is kept, every maximal invalid
\* part becomes U+FFFD
REPLACEMENT == <<239, 191, 189>>
SafeGet(s, i) == IF i <= Len(s) THEN s[i] ELSE 0
IsCont(b) == b >= 128 /\ b <= 191
Second3(b, b1) ==
    \/ b = 224 /\ b1 >= 160 /\ b1 <= 191
    \/ b >= 225 /\ b <= 236 /\ IsCont(b1)
    \/ b = 237 /\ b1 >= 128 /\ b1 <= 159
    \/ b >= 238 /\ b <= 239 /\ IsCont(b1)
Second4(b, b1) ==
    \/ b = 240 /\ b1 >= 144 /\ b1 <= 191
    \/ b >= 241 /\ b <= 243 /\ IsCont(b1)
    \/ b = 244 /\ b1 >= 128 /\ b1 <= 143
\* the chunk starting at s[i]: its length and whether it is valid
Utf8Chunk(s, i) ==
    LET b == s[i]
        b1 == SafeGet(s, i + 1)
        b2 == SafeGet(s, i + 2)
        b3 == SafeGet(s, i + 3)
    IN  IF b < 128 THEN [n |-> 1, ok |-> TRUE]
        ELSE IF b >= 194 /\ b <= 223
        THEN IF IsCont(b1) THEN [n |-> 2, ok |-> TRUE] ELSE [n |-> 1, ok |-> FALSE]
        ELSE IF b >= 224 /\ b <= 239
        THEN IF ~Second3(b, b1) THEN [n |-> 1, ok |-> FALSE]
             ELSE IF ~IsCont(b2) THEN [n |-> 2, ok |-> FALSE]
             ELSE [n |-> 3, ok |-> TRUE]
        ELSE IF b >= 240 /\ b <= 244
        THEN IF ~Second4(b, b1) THEN [n |-> 1, ok |-> FALSE]
             ELSE IF ~IsCont(b2) THEN [n |-> 2, ok |-> FALSE]
             ELSE IF ~IsCont(b3) THEN [n |-> 3, ok |-> FALSE]
             ELSE [n |-> 4, ok |-> TRUE]
        ELSE [n |-> 1, ok |-> FALSE]
RECURSIVE LossyFrom(_, _)
LossyFrom(s, i) ==
    IF i > Len(s) THEN <<>>
    ELSE LET ch == Utf8Chunk(s, i)
         IN  (IF ch.ok THEN SubSeq(s, i, i + ch.n - 1) ELSE REPLACEMENT)
                 \o LossyFrom(s, i + ch.n)
from_utf8_lossy(s) == LossyFrom(s, 1)

\* format!("{}", n) of an unsigned number: its decimal digits
RECURSIVE Decimal(_)
Decimal(n) == IF n < 10 THEN <<48 + n>> ELSE Decimal(n \div 10) \o <<48 + (n % 10)>>

\* the payload clear_view writes: b"\x1B[2J\x1B[H" (l.95)
CLEAR == <<27, 91, 50, 74, 27, 91, 72>>
\* format!("\x1B[{};1H{}", i + 1, String::from_utf8_lossy(line)) (l.101); i is 1-based here
LinePayload(i, line) ==
    <<27, 91>> \o Decimal(i) \o <<59, 49, 72>> \o from_utf8_lossy(line)
\* format!("\x1B[{};{}H", self.y + 1, self.x + 1) (l.104)
CursorPayload(c) ==
    <<27, 91>> \o Decimal(c.y + 1) \o <<59>> \o Decimal(c.x + 1) \o <<72>>
\* the write_all payloads of one render call, in order (l.97-105)
render(c) ==
    <<CLEAR>> \o [i \in 1..Len(c.buffer) |-> LinePayload(i, c.buffer[i])]
              \o <<CursorPayload(c)>>
clear_view == <<CLEAR>>
\* jump_to_top (l.106-111): the canvas it renders
jump_to_top(c) == [c EXCEPT !.x = 0, !.y = 0]

\* a canvas output call either delivers and flushes all its payloads, or one
\* write_all fails and `?` returns the error from main (l.75-78)
Outcomes == BOOLEAN

\* ------------------------------------------------------------ main (l.139-251)
Zeros == <<0, 0, 0, 0>>

Init ==
    /\ pc = "clear1"
    /\ canvas = new
    /\ input_buffer = Zeros
    /\ index = 0
    /\ buf = 0
    /\ raw = FALSE
    /\ restores = 0
    /\ written = <<>>
    /\ trace = <<>>
    /\ result = "running"
    /\ iters = 0
    /\ renders = 0
    /\ rt = "none"
    /\ saved = new

\* main returns res: its locals (canvas, input_buffer, index) are dropped
Return(res) ==
    /\ pc' = "done"
    /\ result' = res
    /\ canvas' = new
    /\ input_buffer' = Zeros
    /\ index' = 0
    /\ buf' = 0
    /\ iters' = 0
    /\ renders' = 0
    /\ rt' = "none"
    /\ saved' = new

\* canvas.clear_view()? before raw mode is set (l.144)
Clear1 ==
    /\ pc = "clear1"
    /\ \E ok \in Outcomes :
        IF ok
        THEN /\ written' = clear_view
             /\ pc' = "set_raw"
             /\ UNCHANGED <<canvas, input_buffer, index, buf, result, iters, renders, rt, saved>>
        ELSE /\ written' = written
             /\ Return("err")
    /\ UNCHANGED <<raw, restores, trace>>

\* set_raw_mode(stdin_fd)? (l.147, l.20-38)
SetRawMode ==
    /\ pc = "set_raw"
    /\ \E ok \in BOOLEAN :
        IF ok
        THEN /\ raw' = TRUE
             /\ pc' = "clear2"
             /\ UNCHANGED <<canvas, input_buffer, index, buf, result, iters, renders, rt, saved>>
        ELSE /\ raw' = raw
             /\ Return("err")
    /\ UNCHANGED <<restores, written, trace>>

\* canvas.clear_view()? after raw mode is set (l.148)
Clear2 ==
    /\ pc = "clear2"
    /\ \E ok \in Outcomes :
        IF ok
        THEN /\ written' = clear_view
             /\ pc' = "loop"
             /\ UNCHANGED <<canvas, input_buffer, index, buf, result, iters, renders, rt, saved>>
        ELSE /\ written' = written
             /\ Return("err")
    /\ UNCHANGED <<raw, restores, trace>>

\* the end of an iteration that did not break (l.242): it leaves s (a loop_body
\* result), the byte b, the history (k, h, sv) behind, and makes s.rendered
\* render calls, each of which may fail
EndIteration(s, b, k, h, sv) ==
    /\ \E ok \in (IF s.rendered > 0 THEN Outcomes ELSE {TRUE}) :
        IF ok
        THEN /\ written' = IF s.rendered > 0 THEN render(s.canvas) ELSE written
             /\ pc' = "loop"
             /\ canvas' = s.canvas
             /\ input_buffer' = s.input_buffer
             /\ index' = s.index
             /\ buf' = b
             /\ iters' = k + 1
             /\ renders' = (IF k = 0 THEN 0 ELSE renders) + s.rendered
             /\ rt' = h
             /\ saved' = sv
             /\ result' = result
        ELSE /\ written' = written
             /\ Return("err")
    /\ UNCHANGED <<raw, restores, trace>>

\* after `break` (l.245-250): jump_to_top()?, restore_mode()?, clear_view()?, Ok(())
Shutdown(c, why) ==
    LET c1 == jump_to_top(c)
        t1 == <<[call |-> why, canvas |-> c], [call |-> "jump_to_top", canvas |-> c1]>>
        t2 == Append(t1, [call |-> "restore_mode", canvas |-> c1])
        t3 == Append(t2, [call |-> "clear_view", canvas |-> c1])
    IN  \E ok1 \in Outcomes :
            IF ~ok1
            THEN /\ trace' = t1
                 /\ written' = written
                 /\ UNCHANGED <<raw, restores>>
                 /\ Return("err")
            ELSE /\ restores' = restores + 1
                 /\ \E r \in BOOLEAN :
                     IF ~r
                     THEN /\ trace' = t2
                          /\ written' = render(c1)
                          /\ raw' = raw
                          /\ Return("err")
                     ELSE /\ trace' = t3
                          /\ raw' = FALSE
                          /\ \E ok3 \in Outcomes :
                              /\ written' = IF ok3 THEN clear_view ELSE render(c1)
                              /\ Return(IF ok3 THEN "ok" ELSE "err")

\* the byte b is handled by the regular-character match, not the escape branch
IsRegular(ib, idx, b) == [ib EXCEPT ![idx + 1] = b][1] # ESCAPE

\* the read returned Ok(0) (l.156-158)
ReadZero ==
    /\ pc = "loop"
    /\ iters < MaxIters
    /\ LET s == loop_body(canvas, input_buffer, index, [kind |-> "zero", byte |-> 0])
       IN  /\ ~s.brk
           /\ EndIteration(s, 0, iters, rt, saved)

\* the read returned one byte and the iteration did not break (l.159-237, l.242)
ReadKey ==
    /\ pc = "loop"
    /\ \E b \in InputBytes(index) :
        LET s == loop_body(canvas, input_buffer, index, [kind |-> "byte", byte |-> b])
            reg == IsRegular(input_buffer, index, b)
            h == IF reg /\ b = ENTER THEN "split"
                 ELSE IF reg /\ b = BACKSPACE /\ rt = "split" THEN "joined"
                 ELSE "none"
            sv == IF h = "split" THEN canvas ELSE IF h = "joined" THEN saved ELSE new
        IN  /\ ~s.brk
            /\ Size(s.canvas.buffer) <= MaxSize
            /\ EndIteration(s, b, IF index = 0 THEN 0 ELSE iters, h, sv)

\* the read returned the end-of-session byte outside an escape sequence (l.187-189)
ReadCtrlD ==
    /\ pc = "loop"
    /\ \E b \in InputBytes(index) :
        LET s == loop_body(canvas, input_buffer, index, [kind |-> "byte", byte |-> b])
        IN  /\ s.brk
            /\ Shutdown(s.canvas, "ctrl_d")

\* the read returned Err (l.238-240)
ReadErr ==
    /\ pc = "loop"
    /\ LET s == loop_body(canvas, input_buffer, index, [kind |-> "err", byte |-> 0])
       IN  /\ s.brk
           /\ Shutdown(s.canvas, "read_err")

Next ==
    \/ Clear1
    \/ SetRawMode
    \/ Clear2
    \/ ReadZero
    \/ ReadKey
    \/ ReadCtrlD
    \/ ReadErr

Spec == Init /\ [][Next]_vars

\* ------------------------------------------------------------------ claims
\* a loop iteration that read the byte b and did not break
ReadStep(b) == pc = "loop" /\ pc' = "loop" /\ buf' = b
\* a loop iteration that read some byte and did not break
KeyStep == pc = "loop" /\ pc' = "loop" /\ buf' # 0

\* C1: in every reachable state the cursor is inside the buffer:
\* 0 <= y < len(buffer) and 0 <= x <= len(buffer[y]).
C1_CursorInRange ==
    /\ 0 <= canvas.y
    /\ canvas.y < Len(canvas.buffer)
    /\ 0 <= canvas.x
    /\ canvas.x <= Len(Line(canvas))

\* a Backspace or arrow has just acted with the cursor on the last of several
\* rows, at the end of a non-empty line
C1_Witness ==
    /\ pc = "loop"
    /\ buf \in {BACKSPACE, 67}
    /\ Len(canvas.buffer) >= 2
    /\ canvas.y = Len(canvas.buffer) - 1
    /\ canvas.x = Len(Line(canvas))
    /\ canvas.x > 0

\* C2: the buffer always holds at least one line; until the first key it is
\* exactly one empty line with the cursor at (0, 0).
C2_BufferNeverEmpty ==
    /\ Len(canvas.buffer) >= 1
    /\ pc \in {"clear1", "set_raw", "clear2"}
          => canvas = [buffer |-> << <<>> >>, x |-> 0, y |-> 0]

\* a Backspace has just been processed and left a single line with the cursor
\* at (0, 0)
C2_Witness ==
    /\ pc = "loop"
    /\ buf = BACKSPACE
    /\ input_buffer[1] = BACKSPACE
    /\ Len(canvas.buffer) = 1
    /\ canvas.x = 0
    /\ canvas.y = 0

\* set_raw_mode has succeeded at some point of the run
RawModeWasSet == raw \/ restores > 0

\* C3: once set_raw_mode has succeeded, restore_mode is invoked exactly once
\* on every path by which main exits.
C3_RestoredOnEveryExit ==
    (pc = "done" /\ RawModeWasSet) => restores = 1

\* C4 as stated: whenever byte 4 is read the loop exits on that byte, whatever
\* bytes preceded it; so the loop is never still running with byte 4 the
\* latest byte read.
C4_ExitsOnEveryCtrlD ==
    pc = "loop" => buf # CTRL_D

\* C4 as amended: byte 4 read while no escape sequence is pending ends the
\* loop on that byte, the byte itself is not applied to the canvas, and
\* nothing is read or applied after main has returned; the loop continues
\* after a byte 4 only when that byte was the second or third byte of a
\* sequence that began with 27, and then the buffer is unchanged.
C4_ExitsOnCtrlDWhenIdle ==
    [][ /\ pc # "done"
        /\ ReadStep(CTRL_D)
              => /\ index \in {1, 2}
                 /\ input_buffer[1] = ESCAPE
                 /\ canvas'.buffer = canvas.buffer
        /\ (pc = "loop" /\ pc' = "done" /\ trace' # <<>> /\ trace'[1].call = "ctrl_d")
              => /\ index = 0
                 /\ trace'[1].canvas = canvas ]_vars

\* main has returned after byte 4 ended the loop on a buffer that had been
\* edited
C4_Witness ==
    /\ pc = "done"
    /\ trace # <<>>
    /\ trace[1].call = "ctrl_d"
    /\ Size(trace[1].canvas.buffer) > 1

\* the calls of the shutdown trace, in order
Calls(t) == [i \in 1..Len(t) |-> t[i].call]

\* C5: when the loop ends, by byte 4 or by a read error, the shutdown runs
\* jump_to_top (cursor to (0,0), full render), then restore_mode, then
\* clear_view, with the buffer as it was when the loop ended.
C5_ShutdownSequence ==
    (pc = "done" /\ trace # <<>>)
        => /\ trace[1].call \in {"ctrl_d", "read_err"}
           /\ Tail(Calls(trace)) = <<"jump_to_top", "restore_mode", "clear_view">>
           /\ \A i \in 2..Len(trace) :
                  trace[i].canvas = [trace[1].canvas EXCEPT !.x = 0, !.y = 0]

\* an event has been processed completely and no sequence is pending
EventDone == pc = "loop" /\ index = 0 /\ iters > 0 /\ input_buffer[1] # 0

\* C6 as stated: between the read of an event's first byte and the read of
\* the next event's first byte exactly one render call is made; so when the
\* last byte of an event has just been read, one render call has been made
\* for that event.
C6_OneRenderPerEvent ==
    (EventDone /\ buf # 0) => renders = 1

\* C6 as amended: every loop iteration that does not break makes exactly one
\* render call, whether it read a byte or none, and the frame it writes shows
\* the buffer and the cursor as the iteration left them; so a one-byte event
\* is rendered once and a three-byte escape sequence three times.
C6_OneRenderPerIteration ==
    pc = "loop"
        => /\ renders = iters
           /\ iters > 0 => written = render(canvas)
           /\ (EventDone /\ input_buffer[1] # ESCAPE) => renders >= 1
           /\ (EventDone /\ input_buffer[1] = ESCAPE) => renders >= 3

\* an arrow sequence has just been completed and three renders were made for it
C6_Witness ==
    /\ EventDone
    /\ input_buffer[1] = ESCAPE
    /\ <<input_buffer[2], input_buffer[3]>> = ARROW_LEFT
    /\ buf = 68
    /\ renders = 3
    /\ written = render(canvas)

\* C7: the third byte of a sequence that began with 27 applies move_up,
\* move_down, move_right or move_left when the last two bytes are [A, [B, [C
\* or [D, and nothing otherwise; either way no byte is pending afterwards and
\* the next byte is decoded as the first byte of a new event.
C7_EscapeDecoding ==
    [][ (KeyStep /\ index = 2 /\ input_buffer[1] = ESCAPE)
            => /\ canvas' = (CASE <<input_buffer[2], buf'>> = <<91, 65>> -> move_up(canvas)
                               [] <<input_buffer[2], buf'>> = <<91, 66>> -> move_down(canvas)
                               [] <<input_buffer[2], buf'>> = <<91, 67>> -> move_right(canvas)
                               [] <<input_buffer[2], buf'>> = <<91, 68>> -> move_left(canvas)
                               [] OTHER -> canvas)
               /\ index' = 0
               /\ \A b \in FirstBytes \ {ESCAPE} :
                      IsRegular(input_buffer', index', b) ]_vars

\* the sequence 27, '[', 'C' has just been completed and the cursor stands
\* right of column 0
C7_Witness ==
    /\ EventDone
    /\ input_buffer[1] = ESCAPE
    /\ <<input_buffer[2], input_buffer[3]>> = <<91, 67>>
    /\ buf = 67
    /\ canvas.x > 0

\* C8: Enter followed immediately by Backspace gives back the buffer and the
\* cursor that were there before the Enter.
C8_SplitJoinRoundTrip ==
    rt = "joined" => canvas = saved

\* the round trip has been made from column 0 of a non-empty line
C8_Witness ==
    /\ rt = "joined"
    /\ saved.x = 0
    /\ Len(Line(saved)) > 0
    /\ canvas.x = 0

\* the cursor of a canvas
Cursor(c) == <<c.y, c.x>>

\* C9 as stated: every keystroke event leaves the buffer or the cursor
\* unchanged.
C9_AtMostOneMutated ==
    [][ KeyStep => canvas'.buffer = canvas.buffer \/ Cursor(canvas') = Cursor(canvas) ]_vars

\* C9 as amended: an arrow event or a dropped escape sequence leaves the
\* buffer unchanged; a printable byte, an Enter and a Backspace anywhere but
\* at (0, 0) change both the buffer and the cursor; a Backspace at (0, 0)
\* changes neither.
C9_FrameOfEachEvent ==
    [][ KeyStep =>
          IF ~IsRegular(input_buffer, index, buf')
          THEN canvas'.buffer = canvas.buffer
          ELSE IF buf' = BACKSPACE /\ Cursor(canvas) = <<0, 0>>
          THEN canvas' = canvas
          ELSE /\ canvas'.buffer # canvas.buffer
               /\ Cursor(canvas') # Cursor(canvas) ]_vars

\* a Backspace has just removed a byte inside a line
C9_Witness ==
    /\ EventDone
    /\ buf = BACKSPACE
    /\ input_buffer[1] = BACKSPACE
    /\ rt = "none"
    /\ canvas.x > 0
    /\ canvas.x < Len(Line(canvas))

\* C10: a printable byte typed at column x becomes the byte at index x of the
\* current line, the bytes formerly at indices >= x shift right by one, x
\* grows by 1 and no other line changes; at end of line the byte is appended
\* and the column is the new line length.
C10_InsertByte ==
    [][ (KeyStep /\ index = 0 /\ buf' \notin {CTRL_D, ENTER, ESCAPE, BACKSPACE})
            => LET l == Line(canvas)
                   k == canvas.x
               IN  /\ canvas'.y = canvas.y
                   /\ canvas'.x = k + 1
                   /\ Len(canvas'.buffer) = Len(canvas.buffer)
                   /\ Line(canvas') = SubSeq(l, 1, k) \o <<buf'>> \o SubSeq(l, k + 1, Len(l))
                   /\ Line(canvas')[k + 1] = buf'
                   /\ \A i \in 1..Len(canvas.buffer) :
                          i # canvas.y + 1 => canvas'.buffer[i] = canvas.buffer[i]
                   /\ k = Len(l) => /\ Line(canvas') = Append(l, buf')
                                    /\ canvas'.x = Len(Line(canvas')) ]_vars

\* byte 200 has just been typed at column 0 in front of the byte 65
C10_Witness ==
    /\ EventDone
    /\ buf = 200
    /\ input_buffer[1] = 200
    /\ canvas.x = 1
    /\ Line(canvas) = <<200, 65>>

\* C11: Backspace with the cursor at (0, 0) changes nothing, whatever the
\* buffer holds: same lines, same bytes, same cursor.
C11_BackspaceAtOrigin ==
    [][ (ReadStep(BACKSPACE) /\ index = 0 /\ Cursor(canvas) = <<0, 0>>)
            => canvas' = canvas ]_vars

\* a Backspace has just been processed and the cursor is at (0, 0) of a buffer
\* of several lines that is as large as editing lets it grow: the Backspace
\* removed nothing, so it was processed at (0, 0)
C11_Witness ==
    /\ EventDone
    /\ buf = BACKSPACE
    /\ input_buffer[1] = BACKSPACE
    /\ Cursor(canvas) = <<0, 0>>
    /\ Len(canvas.buffer) >= 2
    /\ Len(Line(canvas)) > 0
    /\ Size(canvas.buffer) = MaxSize

\* the bytes of the ArrowRight and ArrowLeft events
RightKey == <<ESCAPE>> \o ARROW_RIGHT
LeftKey == <<ESCAPE>> \o ARROW_LEFT

\* C12: with no sequence pending and the cursor at an interior column,
\* ArrowRight then ArrowLeft, and ArrowLeft then ArrowRight, bring the cursor
\* back where it was; ArrowLeft at column 0 and ArrowRight at end of line
\* leave the cursor unchanged.
C12_RightLeftInverse ==
    (pc = "loop" /\ index = 0)
        => LET rl == Feed(canvas, input_buffer, index, RightKey \o LeftKey)
               lr == Feed(canvas, input_buffer, index, LeftKey \o RightKey)
               l == Feed(canvas, input_buffer, index, LeftKey)
               r == Feed(canvas, input_buffer, index, RightKey)
           IN  /\ (0 < canvas.x /\ canvas.x < Len(Line(canvas)))
                     => /\ rl.canvas = canvas
                        /\ lr.canvas = canvas
                        /\ Cursor(r.canvas) = <<canvas.y, canvas.x + 1>>
                        /\ Cursor(l.canvas) = <<canvas.y, canvas.x - 1>>
               /\ canvas.x = 0 => l.canvas = canvas
               /\ canvas.x = Len(Line(canvas)) => r.canvas = canvas

\* an ArrowLeft event has just been completed and the cursor stands at an
\* interior column of its line
C12_Witness ==
    /\ EventDone
    /\ input_buffer = <<ESCAPE, 91, 68, 0>>
    /\ buf = 68
    /\ 0 < canvas.x
    /\ canvas.x < Len(Line(canvas))

\* the escape sequence that moves the terminal cursor to (row, col), 1-based
MoveTo(row, col) == <<27, 91>> \o Decimal(row) \o <<59>> \o Decimal(col) \o <<72>>

\* C13: the frame of the latest render is the clear-screen-and-home
\* sequence, then for every buffer line, in index order, a move to
\* (i + 1, 1) followed by exactly the raw bytes of the line, then a move to
\* (y + 1, x + 1).
C13_RawBytesWritten ==
    (pc = "loop" /\ iters > 0)
        => LET n == Len(canvas.buffer)
           IN  /\ Len(written) = n + 2
               /\ written[1] = CLEAR
               /\ \A i \in 1..n : written[i + 1] = MoveTo(i, 1) \o canvas.buffer[i]
               /\ written[n + 2] = MoveTo(canvas.y + 1, canvas.x + 1)

\* C14: an Enter at (y, x) on line L adds exactly one line: row y becomes
\* L[0..x], row y + 1 becomes L[x..], the cursor goes to (y + 1, 0), the rows
\* before y keep their place and the rows after y move down by one.
C14_EnterSplits ==
    [][ (ReadStep(ENTER) /\ index = 0)
            => LET y == canvas.y
                   x == canvas.x
                   L == Line(canvas)
                   n == Len(canvas.buffer)
               IN  /\ Len(canvas'.buffer) = n + 1
                   /\ canvas'.buffer[y + 1] = SubSeq(L, 1, x)
                   /\ canvas'.buffer[y + 2] = SubSeq(L, x + 1, Len(L))
                   /\ x = Len(L) => canvas'.buffer[y + 2] = <<>>
                   /\ Cursor(canvas') = <<y + 1, 0>>
                   /\ \A i \in 1..n :
                        /\ i < y + 1 => canvas'.buffer[i] = canvas.buffer[i]
                        /\ i > y + 1 => canvas'.buffer[i + 1] = canvas.buffer[i] ]_vars

\* an Enter has just split a non-empty line that had a non-empty line below
\* it: that line is now two rows further down
C14_Witness ==
    /\ pc = "loop"
    /\ rt = "split"
    /\ buf = ENTER
    /\ saved.y = 0
    /\ Len(saved.buffer) = 2
    /\ saved.buffer[2] # <<>>
    /\ Len(canvas.buffer) = 3
    /\ canvas.buffer[3] = saved.buffer[2]
    /\ Cursor(canvas) = <<1, 0>>

\* C15: a Backspace at (y, 0) with y > 0 removes exactly one line: row y - 1
\* becomes the old row y - 1 followed by the old row y, the cursor goes to
\* (y - 1, old length of row y - 1), and every other line keeps its content
\* and order.
C15_BackspaceJoins ==
    [][ (ReadStep(BACKSPACE) /\ index = 0 /\ canvas.x = 0 /\ canvas.y > 0)
            => LET y == canvas.y
                   n == Len(canvas.buffer)
               IN  /\ Len(canvas'.buffer) = n - 1
                   /\ canvas'.buffer[y] = canvas.buffer[y] \o canvas.buffer[y + 1]
                   /\ Cursor(canvas') = <<y - 1, Len(canvas.buffer[y])>>
                   /\ \A i \in 1..n :
                        /\ i < y => canvas'.buffer[i] = canvas.buffer[i]
                        /\ i > y + 1 => canvas'.buffer[i - 1] = canvas.buffer[i] ]_vars

\* a Backspace has just joined two non-empty lines, and the cursor stands at
\* the seam
C15_Witness ==
    /\ pc = "loop"
    /\ rt = "joined"
    /\ buf = BACKSPACE
    /\ 0 < saved.x
    /\ saved.x < Len(Line(saved))
    /\ Len(canvas.buffer) = Len(saved.buffer)
    /\ Cursor(canvas) = <<saved.y, saved.x>>

\* the bytes of the ArrowUp and ArrowDown events
UpKey == <<ESCAPE>> \o ARROW_UP
DownKey == <<ESCAPE>> \o ARROW_DOWN

\* C16: ArrowUp with y > 0 puts the cursor at (y - 1, 0) and ArrowDown with
\* y < len(buffer) - 1 at (y + 1, 0); on the first row ArrowUp, and on the
\* last row ArrowDown, leave the cursor as it is, column included, so that
\* repeating the key changes nothing; no arrow event modifies the buffer.
C16_VerticalMoves ==
    [][ /\ (KeyStep /\ index = 2 /\ <<input_buffer[2], buf'>> = ARROW_UP)
            => Cursor(canvas') = IF canvas.y > 0 THEN <<canvas.y - 1, 0>>
                                 ELSE Cursor(canvas)
        /\ (KeyStep /\ index = 2 /\ <<input_buffer[2], buf'>> = ARROW_DOWN)
            => Cursor(canvas') = IF canvas.y < Len(canvas.buffer) - 1
                                 THEN <<canvas.y + 1, 0>>
                                 ELSE Cursor(canvas)
        /\ (KeyStep /\ index = 2
              /\ <<input_buffer[2], buf'>> \in {ARROW_UP, ARROW_DOWN, ARROW_RIGHT, ARROW_LEFT})
            => canvas'.buffer = canvas.buffer
        /\ (pc = "loop" /\ index = 0 /\ canvas.y = 0)
            => Feed(canvas, input_buffer, index, UpKey \o UpKey).canvas = canvas
        /\ (pc = "loop" /\ index = 0 /\ canvas.y = Len(canvas.buffer) - 1)
            => Feed(canvas, input_buffer, index, DownKey \o DownKey).canvas = canvas
      ]_vars

\* an ArrowUp event has just been completed on the first row of a buffer of
\* several lines, and the cursor is still at a column other than 0
C16_Witness ==
    /\ EventDone
    /\ input_buffer = <<ESCAPE, 91, 65, 0>>
    /\ buf = 65
    /\ canvas.y = 0
    /\ canvas.x > 0
    /\ Len(canvas.buffer) >= 2

\* C17: whenever the loop is about to read, the count of buffered bytes is 0,
\* 1 or 2, so the slot it writes next is inside the 4-byte array; the count is
\* non-zero only while the first buffered byte is 27; the count is back at 0
\* after every byte handled outside a sequence and after the third byte of
\* every sequence, recognized or not.
C17_AccumulatorBounded ==
    [][ /\ pc' = "loop"
            => /\ index' \in {0, 1, 2}
               /\ index' + 1 \in DOMAIN input_buffer'
               /\ Len(input_buffer') = 4
               /\ index' # 0 => input_buffer'[1] = ESCAPE
        /\ (KeyStep /\ IsRegular(input_buffer, index, buf')) => index' = 0
        /\ (KeyStep /\ index = 2) => index' = 0
        /\ (KeyStep /\ ~IsRegular(input_buffer, index, buf') /\ index < 2)
            => index' = index + 1
      ]_vars

\* a sequence of three bytes that is no arrow key has just been dropped, and
\* the count is back at 0
C17_Witness ==
    /\ EventDone
    /\ input_buffer[1] = ESCAPE
    /\ input_buffer[2] = ENTER
    /\ input_buffer[3] = BACKSPACE
    /\ buf = BACKSPACE
    /\ index = 0

\* the read result Ok(0)
ZeroRead == [kind |-> "zero", byte |-> 0]

\* C18: an iteration whose read returns 0 bytes leaves the buffer, the cursor,
\* the count of buffered bytes and the buffered bytes as they were, and it
\* does not break out of the loop.
C18_ZeroReadNoEvent ==
    [][ /\ pc = "loop"
            => LET s == loop_body(canvas, input_buffer, index, ZeroRead)
               IN  /\ ~s.brk
                   /\ s.canvas = canvas
                   /\ s.input_buffer = input_buffer
                   /\ s.index = index
        /\ ReadStep(0)
            => /\ canvas' = canvas
               /\ input_buffer' = input_buffer
               /\ index' = index
               /\ trace' = <<>>
      ]_vars

\* a read has just returned 0 bytes while an escape sequence was pending on a
\* buffer that holds some text; the sequence is still pending
C18_Witness ==
    /\ pc = "loop"
    /\ buf = 0
    /\ iters = 2
    /\ index = 1
    /\ input_buffer[1] = ESCAPE
    /\ Size(canvas.buffer) > 2

\* all the lines of the buffer one after the other, in row order
RECURSIVE Flatten(_)
Flatten(b) == IF b = <<>> THEN <<>> ELSE Head(b) \o Flatten(Tail(b))

\* the place of the cursor in the flattened buffer
Offset(c) == SumLen(SubSeq(c.buffer, 1, c.y)) + c.x

\* C19: the concatenation of the lines in row order is unchanged by an Enter,
\* by a Backspace at column 0, by every arrow event, by every byte of a
\* dropped or pending sequence and by a zero-byte read; a printable byte adds
\* exactly the byte typed, at the cursor; a Backspace at column x > 0 removes
\* exactly the byte at index x - 1 of the current line; so no iteration
\* changes the number of bytes by more than 1.
C19_ContentConserved ==
    [][ (pc = "loop" /\ pc' = "loop")
            => LET F == Flatten(canvas.buffer)
                   G == Flatten(canvas'.buffer)
                   reg == buf' # 0 /\ IsRegular(input_buffer, index, buf')
               IN  /\ ~reg => G = F
                   /\ (reg /\ buf' = ENTER) => G = F
                   /\ (reg /\ buf' = BACKSPACE /\ canvas.x = 0) => G = F
                   /\ (reg /\ buf' = BACKSPACE /\ canvas.x > 0)
                        => /\ G = VecRemove(F, Offset(canvas) - 1)
                           /\ Len(G) = Len(F) - 1
                           /\ Line(canvas') = VecRemove(Line(canvas), canvas.x - 1)
                   /\ (reg /\ buf' \notin {ENTER, BACKSPACE})
                        => /\ G = VecInsert(F, Offset(canvas), buf')
                           /\ Len(G) = Len(F) + 1
                   /\ Len(G) - Len(F) \in {-1, 0, 1} ]_vars

\* an Enter has just split a line between two of its bytes, and the bytes of
\* the buffer read in row order are the same as before
C19_Witness ==
    /\ pc = "loop"
    /\ rt = "split"
    /\ buf = ENTER
    /\ 0 < saved.x
    /\ saved.x < Len(Line(saved))
    /\ Len(canvas.buffer) = Len(saved.buffer) + 1
    /\ Flatten(canvas.buffer) = Flatten(saved.buffer)

\* every byte value the model reads
AllBytes == FirstBytes \cup SecondBytes \cup ThirdBytes

\* C20: while a sequence that starts with 27 is pending, the next byte read,
\* whatever its value (10, 127, 4 and 27 included), becomes part of the
\* sequence: it does not modify the buffer, it does not end the session, and
\* it changes the cursor only when it completes one of the four arrow
\* sequences.
C20_EscapeAbsorbs ==
    [][ /\ (pc = "loop" /\ index > 0)
            => \A b \in AllBytes :
                  LET r == on_byte(canvas, input_buffer, index, b)
                  IN  /\ ~r.brk
                      /\ r.canvas.buffer = canvas.buffer
                      /\ r.input_buffer[index + 1] = b
                      /\ r.index = IF index = 2 THEN 0 ELSE index + 1
                      /\ Cursor(r.canvas) # Cursor(canvas)
                            => /\ index = 2
                               /\ <<input_buffer[2], b>> \in
                                    {ARROW_UP, ARROW_DOWN, ARROW_RIGHT, ARROW_LEFT}
        /\ (KeyStep /\ index > 0)
            => /\ canvas'.buffer = canvas.buffer
               /\ input_buffer'[index + 1] = buf'
               /\ Cursor(canvas') # Cursor(canvas)
                     => /\ index = 2
                        /\ <<input_buffer[2], buf'>> \in
                             {ARROW_UP, ARROW_DOWN, ARROW_RIGHT, ARROW_LEFT}
      ]_vars

\* an Enter byte has just been read as the second byte of a pending sequence
\* on a buffer that holds some text: it is buffered and no line was added
C20_Witness ==
    /\ pc = "loop"
    /\ index = 2
    /\ input_buffer[1] = ESCAPE
    /\ input_buffer[2] = ENTER
    /\ buf = ENTER
    /\ rt = "none"
    /\ Len(canvas.buffer) = 1
    /\ Len(Line(canvas)) = 2

====
